---- MODULE Spec2Model ----
(***************************************************************************)
(* A model of the CHIP-8 interpreter core of chip8-rs:                     *)
(*   src/src/processor/mod.rs  (Processor: new, load_program, tick and the *)
(*                              35 opcode handlers)                        *)
(*   src/src/main.rs           (the host loop: new, load_program, ticks)   *)
(* The Processor struct is a record; every method is an operator from the  *)
(* struct (and the method's arguments) to the struct after the call.  A    *)
(* Rust panic (index out of bounds, arithmetic overflow in a build with    *)
(* overflow checks) is recorded in the extra field "fault" together with   *)
(* the state the struct had when the panic was raised; main.rs does not    *)
(* catch panics, so nothing runs after one.                                *)
(***************************************************************************)
EXTENDS Integers, Sequences, FiniteSets, TLC

\* ------------------------------------------------------------------------
\* Sizes fixed by the source.
\* ------------------------------------------------------------------------
MEMORY_SIZE == 4096
NUM_REGISTERS == 16
STACK_SIZE == 48
VRAM_HEIGHT == 32
VRAM_WIDTH == 64
NUM_KEYS == 16
PROGRAM_START == 512
\* usize::MAX, the value 0usize - 1 wraps to in a build without overflow
\* checks.  It is 2^64 - 1 on the 64-bit targets; TLC's integers are 32 bits
\* wide, so the largest of them stands for it.  The code only ever compares
\* it with STACK_SIZE (the bounds check of stack[sp]).
USIZE_MAX == 2147483647

Byte == 0 .. 255
RegIdx == 0 .. (NUM_REGISTERS - 1)

\* ------------------------------------------------------------------------
\* u8 / u16 arithmetic as Rust computes it.
\* ------------------------------------------------------------------------
RECURSIVE BitAnd(_, _)
\* a & b, bit by bit from the least significant one.
BitAnd(a, b) ==
    IF a = 0 \/ b = 0 THEN 0
    ELSE (a % 2) * (b % 2) + 2 * BitAnd(a \div 2, b \div 2)

RECURSIVE BitOr(_, _)
\* a | b
BitOr(a, b) ==
    IF a = 0 THEN b
    ELSE IF b = 0 THEN a
    ELSE (IF (a % 2) + (b % 2) > 0 THEN 1 ELSE 0) + 2 * BitOr(a \div 2, b \div 2)

RECURSIVE BitXor(_, _)
\* a ^ b
BitXor(a, b) ==
    IF a = 0 THEN b
    ELSE IF b = 0 THEN a
    ELSE (((a % 2) + (b % 2)) % 2) + 2 * BitXor(a \div 2, b \div 2)

\* `as u8`: truncation to the low 8 bits.
AsU8(v) == v % 256

\* ------------------------------------------------------------------------
\* The built-in font (crate::font::FONT_SET, 16 glyphs of 5 bytes).
\* ------------------------------------------------------------------------
FONT_SET ==
    << 240, 144, 144, 144, 240,    32,  96,  32,  32, 112,
       240,  16, 240, 128, 240,   240,  16, 240,  16, 240,
       144, 144, 240,  16,  16,   240, 128, 240,  16, 240,
       240, 128, 240, 144, 240,   240,  16,  32,  64,  64,
       240, 144, 240, 144, 240,   240, 144, 240,  16, 240,
       240, 144, 240, 144, 144,   224, 144, 224, 144, 224,
       240, 128, 128, 128, 240,   224, 144, 144, 144, 224,
       240, 128, 240, 128, 240,   240, 128, 240, 128, 128 >>

\* ------------------------------------------------------------------------
\* Processor::new
\* ------------------------------------------------------------------------
new ==
    [ memory       |-> [a \in 0 .. (MEMORY_SIZE - 1) |->
                          IF a < Len(FONT_SET) THEN FONT_SET[a + 1] ELSE 0],
      registers    |-> [r \in RegIdx |-> 0],
      stack        |-> [s \in 0 .. (STACK_SIZE - 1) |-> 0],
      sp           |-> 0,
      delay_timer  |-> 0,
      sound_timer  |-> 0,
      vram         |-> [y \in 0 .. (VRAM_HEIGHT - 1) |->
                          [x \in 0 .. (VRAM_WIDTH - 1) |-> 0]],
      keypresswait |-> FALSE,
      key          |-> 0,
      pc           |-> PROGRAM_START,
      i            |-> 0,
      vram_changed |-> FALSE,
      keypad       |-> [k \in 0 .. (NUM_KEYS - 1) |-> FALSE],
      fault        |-> "none" ]

\* A panic: the struct keeps the value it had when the panic was raised.
Panic(p, why) == [p EXCEPT !.fault = why]

\* ------------------------------------------------------------------------
\* Processor::load_program: memory[i + 0x200] = bytes[i] for i in 0..len;
\* the indexing panics at the first i with i + 0x200 >= 4096, after the
\* bytes before it have been written.
\* ------------------------------------------------------------------------
load_program(p, bytes) ==
    LET fits == MEMORY_SIZE - PROGRAM_START
        n    == IF Len(bytes) <= fits THEN Len(bytes) ELSE fits
        mem  == [a \in 0 .. (MEMORY_SIZE - 1) |->
                    IF a >= PROGRAM_START /\ a < PROGRAM_START + n
                    THEN bytes[a - PROGRAM_START + 1]
                    ELSE p.memory[a]]
        q    == [p EXCEPT !.memory = mem]
    IN  IF Len(bytes) > fits THEN Panic(q, "load_program: index out of bounds")
        ELSE q

\* ------------------------------------------------------------------------
\* Program counter helpers.
\* ------------------------------------------------------------------------
\* The advance by one byte instead of one instruction word.
pc_next_one_byte(p) == [p EXCEPT !.pc = p.pc + 1]

pc_next(p) == [p EXCEPT !.pc = p.pc + 2]

pc_jump(p, addr) == [p EXCEPT !.pc = addr]

pc_skip(p) == [p EXCEPT !.pc = p.pc + 4]

\* ------------------------------------------------------------------------
\* Opcode handlers.  Each takes the struct and the decoded fields and gives
\* the struct after the handler returned (or panicked).
\* ------------------------------------------------------------------------
VF == 15

op00e0(p) ==
    pc_next([p EXCEPT
        !.vram = [y \in 0 .. (VRAM_HEIGHT - 1) |->
                    [x \in 0 .. (VRAM_WIDTH - 1) |-> 0]],
        !.vram_changed = TRUE])

\* self.sp -= 1 on sp = 0 panics in a build with overflow checks (debug) and
\* wraps to usize::MAX otherwise (release), where stack[sp] then panics.
op00ee(p, overflow_checks) ==
    IF p.sp = 0
    THEN IF overflow_checks
         THEN Panic(p, "op00ee: attempt to subtract with overflow")
         ELSE Panic([p EXCEPT !.sp = USIZE_MAX], "op00ee: index out of bounds")
    ELSE LET q == [p EXCEPT !.sp = p.sp - 1]
         IN  IF q.sp >= STACK_SIZE
             THEN Panic(q, "op00ee: index out of bounds")
             ELSE pc_jump(q, q.stack[q.sp])

op1nnn(p, nnn) == pc_jump(p, nnn)

\* op2nnn pushing the address of the call itself instead of the next opcode.
op2nnn_pushes_pc(p, nnn) ==
    IF p.sp >= STACK_SIZE
    THEN Panic(p, "op2nnn: index out of bounds")
    ELSE pc_jump([p EXCEPT !.stack[p.sp] = p.pc, !.sp = p.sp + 1], nnn)

op2nnn(p, nnn) ==
    IF p.sp >= STACK_SIZE
    THEN Panic(p, "op2nnn: index out of bounds")
    ELSE pc_jump([p EXCEPT !.stack[p.sp] = p.pc + 2, !.sp = p.sp + 1], nnn)

op3xkk(p, x, kk) ==
    IF p.registers[x] = kk THEN pc_skip(p) ELSE pc_next(p)

op4xkk(p, x, kk) ==
    IF p.registers[x] # kk THEN pc_skip(p) ELSE pc_next(p)

op5xy0(p, x, y) ==
    IF p.registers[x] # p.registers[y] THEN pc_skip(p) ELSE pc_next(p)

op6xkk(p, x, kk) == pc_next([p EXCEPT !.registers[x] = kk])

\* The add-immediate that leaves the flag register alone.
op7xkk_keeps_flag(p, x, kk) ==
    pc_next([p EXCEPT !.registers[x] = AsU8(p.registers[x] + kk)])

\* registers[x] = sum, then registers[0xf] = overflow: with x = 0xf the flag
\* overwrites the sum.
op7xkk(p, x, kk) ==
    LET sum    == p.registers[x] + kk
        ovrflw == IF sum > 255 THEN 1 ELSE 0
        r1     == [p.registers EXCEPT ![x] = AsU8(sum)]
        r2     == [r1 EXCEPT ![VF] = ovrflw]
    IN  pc_next([p EXCEPT !.registers = r2])

op8xy0(p, x, y) == pc_next([p EXCEPT !.registers[x] = p.registers[y]])

op8xy1(p, x, y) ==
    pc_next([p EXCEPT !.registers[x] = BitOr(p.registers[x], p.registers[y])])

op8xy2(p, x, y) ==
    pc_next([p EXCEPT !.registers[x] = BitAnd(p.registers[x], p.registers[y])])

op8xy3(p, x, y) ==
    pc_next([p EXCEPT !.registers[x] = BitXor(p.registers[x], p.registers[y])])

op8xy4(p, x, y) ==
    LET result == p.registers[x] + p.registers[y]
        r1     == [p.registers EXCEPT ![x] = AsU8(result)]
        r2     == [r1 EXCEPT ![VF] = IF result > 255 THEN 1 ELSE 0]
    IN  pc_next([p EXCEPT !.registers = r2])

\* The flag is written first; the subtraction then reads the registers again.
op8xy5(p, x, y) ==
    LET r1 == [p.registers EXCEPT
                  ![VF] = IF p.registers[x] > p.registers[y] THEN 1 ELSE 0]
        r2 == [r1 EXCEPT ![x] = (r1[x] - r1[y]) % 256]
    IN  pc_next([p EXCEPT !.registers = r2])

op8x06(p, x) ==
    LET r1 == [p.registers EXCEPT ![VF] = BitAnd(p.registers[x], 1)]
        r2 == [r1 EXCEPT ![x] = r1[x] \div 2]
    IN  pc_next([p EXCEPT !.registers = r2])

op8xy7(p, x, y) ==
    LET r1 == [p.registers EXCEPT
                  ![VF] = IF p.registers[y] > p.registers[x] THEN 1 ELSE 0]
        r2 == [r1 EXCEPT ![x] = (r1[y] - r1[x]) % 256]
    IN  pc_next([p EXCEPT !.registers = r2])

\* No pc_next: the handler leaves the program counter where it is.
op8x0e(p, x) ==
    LET r1 == [p.registers EXCEPT ![VF] = BitAnd(p.registers[x], 128) \div 128]
        r2 == [r1 EXCEPT ![x] = AsU8(r1[x] * 2)]
    IN  [p EXCEPT !.registers = r2]

op9xy0(p, x, y) ==
    IF p.registers[x] # p.registers[y] THEN pc_skip(p) ELSE pc_next(p)

opannn(p, nnn) == pc_next([p EXCEPT !.i = nnn])

opbnnn(p, nnn) == pc_jump(p, p.registers[0] + nnn)

\* The random load without the mask.
opcxkk_unmasked(p, x, kk, rnd) == pc_next([p EXCEPT !.registers[x] = rnd])

\* rnd is the byte rand::Rng::gen::<u8> returns.
opcxkk(p, x, kk, rnd) == pc_next([p EXCEPT !.registers[x] = BitAnd(rnd, kk)])

\* The two statements on one pixel, setting it (|=) instead of toggling it.
opdxyn_pixel_or(p, yy, xx, color) ==
    [p EXCEPT !.registers[VF] =
                  BitOr(p.registers[VF], BitAnd(color, p.vram[yy][xx])),
              !.vram[yy][xx] = BitOr(p.vram[yy][xx], color)]

\* registers[0xf] |= color & vram[y][x]; vram[y][x] ^= color
opdxyn_pixel(p, yy, xx, color) ==
    [p EXCEPT !.registers[VF] =
                  BitOr(p.registers[VF], BitAnd(color, p.vram[yy][xx])),
              !.vram[yy][xx] = BitXor(p.vram[yy][xx], color)]

\* The inner loop, `for bit in 0..8`, from `bit` on, in row yy.  The column
\* is computed from registers[x] in every iteration, after registers[0xf]
\* may have been written; the read of memory[i + byte] panics past the end
\* of memory, with the pixels drawn so far kept.
RECURSIVE opdxyn_bits(_, _, _, _, _)
opdxyn_bits(p, x, yy, byte, bit) ==
    IF bit >= 8 THEN p
    ELSE LET xx == (p.registers[x] + bit) % VRAM_WIDTH
         IN  IF p.i + byte >= MEMORY_SIZE
             THEN Panic(p, "opdxyn: index out of bounds")
             ELSE LET color == BitAnd(p.memory[p.i + byte] \div (2 ^ (7 - bit)), 1)
                  IN  opdxyn_bits(opdxyn_pixel(p, yy, xx, color), x, yy, byte, bit + 1)

\* The outer loop, `for byte in 0..n`, from `byte` on.  The row is computed
\* from registers[y] once per byte, before the row's pixels are drawn.
RECURSIVE opdxyn_loop(_, _, _, _, _)
opdxyn_loop(p, x, y, n, byte) ==
    IF byte >= n \/ p.fault # "none" THEN p
    ELSE LET yy == (p.registers[y] + byte) % VRAM_HEIGHT
         IN  opdxyn_loop(opdxyn_bits(p, x, yy, byte, 0), x, y, n, byte + 1)

\* opdxyn marking the frame changed only when a pixel changed.
opdxyn_marks_if_changed(p, x, y, n) ==
    LET q == opdxyn_loop([p EXCEPT !.registers[VF] = 0], x, y, n, 0)
    IN  IF q.fault # "none" THEN q
        ELSE pc_next([q EXCEPT !.vram_changed = (q.vram # p.vram)])

opdxyn(p, x, y, n) ==
    LET q == opdxyn_loop([p EXCEPT !.registers[VF] = 0], x, y, n, 0)
    IN  IF q.fault # "none" THEN q
        ELSE pc_next([q EXCEPT !.vram_changed = TRUE])

opex9e(p, x) ==
    IF p.registers[x] >= NUM_KEYS
    THEN Panic(p, "opex9e: index out of bounds")
    ELSE IF p.keypad[p.registers[x]] THEN pc_skip(p) ELSE pc_next(p)

opexa1(p, x) ==
    IF p.registers[x] >= NUM_KEYS
    THEN Panic(p, "opexa1: index out of bounds")
    ELSE IF ~p.keypad[p.registers[x]] THEN pc_skip(p) ELSE pc_next(p)

opfx07(p, x) == pc_next([p EXCEPT !.registers[x] = p.delay_timer])

\* The await-keypress that takes a key already down in this tick's snapshot.
opfx0a_reads_snapshot(p, x) ==
    IF \E k \in 0 .. (NUM_KEYS - 1) : p.keypad[k]
    THEN pc_next([p EXCEPT !.registers[x] =
                     CHOOSE k \in 0 .. (NUM_KEYS - 1) :
                         /\ p.keypad[k]
                         /\ \A j \in 0 .. (NUM_KEYS - 1) : j < k => ~p.keypad[j]])
    ELSE pc_next([p EXCEPT !.keypresswait = TRUE, !.key = x])

opfx0a(p, x) == pc_next([p EXCEPT !.keypresswait = TRUE, !.key = x])

opfx15(p, x) == pc_next([p EXCEPT !.delay_timer = p.registers[x]])

opfx18(p, x) == pc_next([p EXCEPT !.sound_timer = p.registers[x]])

opfx1e(p, x) ==
    LET i1 == p.i + p.registers[x]
    IN  pc_next([p EXCEPT !.i = i1,
                          !.registers[VF] = IF i1 > 3840 THEN 1 ELSE 0])

opfx29(p, x) == pc_next([p EXCEPT !.i = p.registers[x] * 5])

\* memory[addr] = v, or the panic of the indexing.
store(p, addr, v, who) ==
    IF p.fault # "none" THEN p
    ELSE IF addr >= MEMORY_SIZE THEN Panic(p, who)
    ELSE [p EXCEPT !.memory[addr] = v]

opfx33(p, x) ==
    LET vx == p.registers[x]
        q1 == store(p, p.i, vx \div 100, "opfx33: index out of bounds")
        q2 == store(q1, p.i + 1, (vx % 100) \div 10, "opfx33: index out of bounds")
        q3 == store(q2, p.i + 2, vx % 10, "opfx33: index out of bounds")
    IN  IF q3.fault # "none" THEN q3 ELSE pc_next(q3)

\* The dump with the range 0..x instead of 0..x+1 (Vx itself left out).
RECURSIVE opfx55_loop_exclusive(_, _, _)
opfx55_loop_exclusive(p, x, k) ==
    IF k >= x \/ p.fault # "none" THEN p
    ELSE opfx55_loop_exclusive(store(p, p.i + k, p.registers[k],
                                     "opfx55: index out of bounds"), x, k + 1)

RECURSIVE opfx55_loop(_, _, _)
opfx55_loop(p, x, k) ==
    IF k > x \/ p.fault # "none" THEN p
    ELSE opfx55_loop(store(p, p.i + k, p.registers[k],
                           "opfx55: index out of bounds"), x, k + 1)

opfx55(p, x) ==
    LET q == opfx55_loop(p, x, 0)
    IN  IF q.fault # "none" THEN q ELSE pc_next(q)

RECURSIVE opfx65_loop(_, _, _)
opfx65_loop(p, x, k) ==
    IF k > x THEN p
    ELSE IF p.i + k >= MEMORY_SIZE
         THEN Panic(p, "opfx65: index out of bounds")
         ELSE opfx65_loop([p EXCEPT !.registers[k] = p.memory[p.i + k]], x, k + 1)

opfx65(p, x) ==
    LET q == opfx65_loop(p, x, 0)
    IN  IF q.fault # "none" THEN q ELSE pc_next(q)

\* ------------------------------------------------------------------------
\* Fetch and dispatch.
\* ------------------------------------------------------------------------
\* memory[pc] and memory[pc + 1] are both indexed; either may panic.
CanFetch(p) == p.pc + 1 < MEMORY_SIZE

get_opcode(p) == p.memory[p.pc] * 256 + p.memory[p.pc + 1]

Nibble(opcode, k) == (opcode \div (16 ^ (3 - k))) % 16

execute_once(p, opcode, rnd, overflow_checks) ==
    LET n0  == Nibble(opcode, 0)
        x   == Nibble(opcode, 1)
        y   == Nibble(opcode, 2)
        n   == Nibble(opcode, 3)
        nnn == opcode % 4096
        kk  == opcode % 256
    IN  CASE opcode = 224                  -> op00e0(p)
          [] opcode = 238                  -> op00ee(p, overflow_checks)
          [] n0 = 1                        -> op1nnn(p, nnn)
          [] n0 = 2                        -> op2nnn(p, nnn)
          [] n0 = 3                        -> op3xkk(p, x, kk)
          [] n0 = 4                        -> op4xkk(p, x, kk)
          [] n0 = 5 /\ n = 0               -> op5xy0(p, x, y)
          [] n0 = 6                        -> op6xkk(p, x, kk)
          [] n0 = 7                        -> op7xkk(p, x, kk)
          [] n0 = 8 /\ n = 0               -> op8xy0(p, x, y)
          [] n0 = 8 /\ n = 1               -> op8xy1(p, x, y)
          [] n0 = 8 /\ n = 2               -> op8xy2(p, x, y)
          [] n0 = 8 /\ n = 3               -> op8xy3(p, x, y)
          [] n0 = 8 /\ n = 4               -> op8xy4(p, x, y)
          [] n0 = 8 /\ n = 5               -> op8xy5(p, x, y)
          [] n0 = 8 /\ n = 6               -> op8x06(p, x)
          [] n0 = 8 /\ n = 7               -> op8xy7(p, x, y)
          [] n0 = 8 /\ n = 14              -> op8x0e(p, x)
          [] n0 = 9 /\ n = 0               -> op9xy0(p, x, y)
          [] n0 = 10                       -> opannn(p, nnn)
          [] n0 = 11                       -> opbnnn(p, nnn)
          [] n0 = 12                       -> opcxkk(p, x, kk, rnd)
          [] n0 = 13                       -> opdxyn(p, x, y, n)
          [] n0 = 14 /\ kk = 158           -> opex9e(p, x)
          [] n0 = 14 /\ kk = 161           -> opexa1(p, x)
          [] n0 = 15 /\ kk = 7             -> opfx07(p, x)
          [] n0 = 15 /\ kk = 10            -> opfx0a(p, x)
          [] n0 = 15 /\ kk = 21            -> opfx15(p, x)
          [] n0 = 15 /\ kk = 24            -> opfx18(p, x)
          [] n0 = 15 /\ kk = 30            -> opfx1e(p, x)
          [] n0 = 15 /\ kk = 41            -> opfx29(p, x)
          [] n0 = 15 /\ kk = 51            -> opfx33(p, x)
          [] n0 = 15 /\ kk = 85            -> opfx55(p, x)
          [] n0 = 15 /\ kk = 101           -> opfx65(p, x)
          [] OTHER                         -> pc_next(p)

\* ------------------------------------------------------------------------
\* Processor::tick
\* ------------------------------------------------------------------------
\* The keys that are down in a keypad snapshot.
Pressed(keypad) == {k \in 0 .. (NUM_KEYS - 1) : keypad[k]}

\* The first pressed key of the ascending scan (only used when one is down).
FirstPressed(keypad) ==
    CHOOSE k \in Pressed(keypad) : \A j \in Pressed(keypad) : k <= j

\* The scan without its break: the last key that is down wins.
key_wait_scan_no_break(p, keypad) ==
    IF Pressed(keypad) = {} THEN p
    ELSE [p EXCEPT !.keypresswait = FALSE,
                   !.registers[p.key] =
                       CHOOSE k \in Pressed(keypad) :
                           \A j \in Pressed(keypad) : j <= k]

\* The waiting branch: the scan stops at the first key that is down.
key_wait_scan(p, keypad) ==
    IF Pressed(keypad) = {} THEN p
    ELSE [p EXCEPT !.keypresswait = FALSE,
                   !.registers[p.key] = FirstPressed(keypad)]

\* The decrements without their guards: a timer at 0 wraps to 255.
decrement_timers_wrapping(p) ==
    [p EXCEPT !.delay_timer = (p.delay_timer - 1) % 256,
              !.sound_timer = (p.sound_timer - 1) % 256]

decrement_timers(p) ==
    [p EXCEPT !.delay_timer = IF p.delay_timer > 0 THEN p.delay_timer - 1 ELSE 0,
              !.sound_timer = IF p.sound_timer > 0 THEN p.sound_timer - 1 ELSE 0]

\* The tick that counts the timers down before it looks at key-wait.
tick_counts_while_waiting(p, keypad, rnd, overflow_checks) ==
    LET p0 == decrement_timers([p EXCEPT !.keypad = keypad,
                                         !.vram_changed = FALSE])
    IN  IF p0.keypresswait
        THEN key_wait_scan(p0, keypad)
        ELSE IF ~CanFetch(p0)
             THEN Panic(p0, "get_opcode: index out of bounds")
             ELSE execute_once(p0, get_opcode(p0), rnd, overflow_checks)

tick(p, keypad, rnd, overflow_checks) ==
    LET p0 == [p EXCEPT !.keypad = keypad, !.vram_changed = FALSE]
    IN  IF p0.keypresswait
        THEN key_wait_scan(p0, keypad)
        ELSE LET p1 == decrement_timers(p0)
             IN  IF ~CanFetch(p1)
                 THEN Panic(p1, "get_opcode: index out of bounds")
                 ELSE execute_once(p1, get_opcode(p1), rnd, overflow_checks)

\* The snapshot with beep taken from the wrong timer.
ProcessorState_beep_on_delay(p) ==
    [ vram         |-> p.vram,
      vram_changed |-> p.vram_changed,
      beep         |-> p.delay_timer > 0 ]

\* The value tick returns (crate::output::ProcessorState).
ProcessorState(p) ==
    [ vram         |-> p.vram,
      vram_changed |-> p.vram_changed,
      beep         |-> p.sound_timer > 0 ]

\* ------------------------------------------------------------------------
\* Cartridges: the ROM images the host may load (Cartridge::read gives the
\* bytes of a file, whatever they are).  Each family below is a bounded set
\* of programs, written as 16-bit instruction words.
\* ------------------------------------------------------------------------
Op(n0, x, y, n) == n0 * 4096 + x * 256 + y * 16 + n

OpK(n0, x, kk) == n0 * 4096 + x * 256 + kk

OpA(n0, nnn) == n0 * 4096 + nnn

\* The address of the w-th word (from 0) of a loaded program.
Addr(w) == PROGRAM_START + 2 * w

\* The big-endian bytes of a sequence of words.
Bytes(words) ==
    [k \in 1 .. (2 * Len(words)) |->
        IF k % 2 = 1 THEN words[(k + 1) \div 2] \div 256
                     ELSE words[k \div 2] % 256]

\* "jump to self" at word w: the program stays there.
Halt(w) == OpA(1, Addr(w))

MaxPad == 2
MaxDepth == 3

\* pad no-effect loads, then a chain of d nested calls, each subroutine
\* returning right after its own call came back.
CallRetWords(pad, d) ==
    [w \in 1 .. (pad + 2 + 2 * d) |->
        LET k == w - 1 IN
        IF k < pad THEN OpK(6, 10, 0)
        ELSE IF k = pad THEN OpA(2, Addr(pad + 2))
        ELSE IF k = pad + 1 THEN Halt(pad + 1)
        ELSE LET j == (k - pad - 2) \div 2
                 first == (k - pad - 2) % 2 = 0
             IN  IF first /\ j < d - 1 THEN OpA(2, Addr(k + 2))
                 ELSE 238]

CallRetRoms ==
    {Bytes(CallRetWords(pad, d)) : pad \in 0 .. MaxPad, d \in 1 .. MaxDepth}

\* V0 counts the passes; the routine calls itself until V0 = limit, then
\* returns all the way up and once more.
RecursionRoms ==
    {Bytes(<<OpK(7, 0, 1), OpK(3, 0, limit), OpA(2, Addr(0)), 238>>) :
        limit \in {STACK_SIZE + 1, STACK_SIZE + 2}}

\* Set both timers from V0, then wait for a key into Vr, read the delay
\* timer and stop.
KeyWaitRoms ==
    {Bytes(<<OpK(6, 0, t), OpK(15, 0, 21), OpK(15, 0, 24), OpK(15, r, 10),
             OpK(15, 1, 7), Halt(5)>>) :
        r \in RegIdx, t \in {0, 5}}

\* Timers counting down over instructions of several kinds, set again mid-way.
TimerRoms ==
    {Bytes(<<OpK(6, 0, t), OpK(15, 0, 24), OpK(6, 1, u), OpK(15, 1, 21),
             OpK(15, 2, 7), 224, OpK(15, 1, 24), OpK(15, 3, 7), Halt(8)>>) :
        t \in {0, 1, 3}, u \in {0, 1, 2}}

\* Keypad tests on V0 = v.
KeyTestRoms ==
    {Bytes(<<OpK(6, 0, v), OpK(14, 0, kk), OpK(6, 1, 1), Halt(3), Halt(4)>>) :
        v \in {0, 7, 15, 16, 255}, kk \in {158, 161}}

DrawPairs == {<<0, 1>>, <<1, 0>>, <<3, 3>>, <<15, 1>>, <<1, 15>>}

DrawCoords == {<<0, 0>>, <<60, 30>>, <<63, 31>>, <<200, 100>>, <<255, 255>>}

DrawHeights == 0 .. 15

DrawSources == {0, 75, PROGRAM_START, MEMORY_SIZE - 1}

\* <<background, <<x, y>>, <<Vx, Vy>>, n, I>>: every register pair at every
\* coordinate with a 5-row glyph, and every height from every source at one
\* coordinate.
DrawCases ==
    {<<bg, xy, c, 5, 0>> : bg \in BOOLEAN, xy \in DrawPairs, c \in DrawCoords}
    \cup {<<bg, <<0, 1>>, <<60, 30>>, n, src>> :
            bg \in BOOLEAN, n \in DrawHeights, src \in DrawSources}

\* Optionally a glyph drawn first as background, then the same sprite drawn
\* twice at (Vx, Vy).
DrawWords(bg, xy, c, n, src) ==
    (IF bg THEN <<OpA(10, 10), OpK(6, 12, (c[1] + 2) % 256),
                  OpK(6, 13, (c[2] + 1) % 256), Op(13, 12, 13, 5)>>
           ELSE << >>)
    \o <<OpA(10, src), OpK(6, xy[1], c[1]), OpK(6, xy[2], c[2]),
         Op(13, xy[1], xy[2], n), Op(13, xy[1], xy[2], n),
         Halt(IF bg THEN 9 ELSE 5)>>

DrawRoms == {Bytes(DrawWords(d[1], d[2], d[3], d[4], d[5])) : d \in DrawCases}

\* Programs that leave the loaded region or index past an array.
EdgeRoms ==
    { Bytes(<<OpA(1, MEMORY_SIZE - 2)>>),
      Bytes(<<OpA(1, MEMORY_SIZE - 1)>>),
      Bytes(<<OpK(6, 0, 255), OpA(11, MEMORY_SIZE - 1)>>),
      Bytes(<<OpK(6, 0, 2), OpA(11, Addr(3)), Halt(2), Halt(3), Halt(4)>>),
      Bytes(<<238>>),
      Bytes(<<OpA(2, Addr(0))>>),
      Bytes(<<OpA(10, MEMORY_SIZE - 1), OpK(6, 0, 123), OpK(15, 0, 51)>>),
      Bytes(<<OpA(10, MEMORY_SIZE - 2), OpK(6, 2, 9), OpK(15, 2, 85)>>),
      Bytes(<<OpA(10, MEMORY_SIZE - 2), OpK(15, 2, 101)>>),
      Bytes(<<OpA(10, MEMORY_SIZE - 1), OpK(6, 0, 255), OpK(15, 0, 30),
              OpK(15, 0, 85)>>),
      Bytes(<<OpK(12, 0, 3), OpK(15, 0, 41), Halt(2)>>),
      Bytes(<<OpA(1, MEMORY_SIZE - 8)>>) }

\* A ROM of exactly the size that fits, with a non-zero sprite in its last
\* bytes, drawn twice.
FullRom ==
    LET head == Bytes(<<OpA(10, MEMORY_SIZE - 15), OpK(6, 0, 5), OpK(6, 1, 5),
                        Op(13, 0, 1, 15), Op(13, 0, 1, 15), Halt(5)>>)
        size == MEMORY_SIZE - PROGRAM_START
    IN  [k \in 1 .. size |->
            IF k <= Len(head) THEN head[k]
            ELSE IF k > size - 15 THEN 1 + (k % 255)
            ELSE 0]

\* A ROM one byte too long for the memory after 0x200.
OversizedRom == [k \in 1 .. (MEMORY_SIZE - PROGRAM_START + 1) |-> 1 + (k % 255)]

\* Fill V0..VF from the font, dump V0..Vx at I = base, clear V0..VF from the
\* zero bytes after the font, then load V0..Vx back from I = base.
RegBlockBases == {768, MEMORY_SIZE - NUM_REGISTERS}

RegBlockRoms ==
    {Bytes(<<OpA(10, 0), OpK(15, 15, 101), OpA(10, base), OpK(15, x, 85),
             OpA(10, 80), OpK(15, 15, 101), OpA(10, base), OpK(15, x, 101),
             Halt(8)>>) :
        x \in RegIdx, base \in RegBlockBases}

\* VF = 9, Vx = v, then Vx += kk.
AddImmRoms ==
    {Bytes(<<OpK(6, 15, 9), OpK(6, x, v), OpK(7, x, kk), Halt(3)>>) :
        x \in {0, 7, 14, 15}, v \in {0, 1, 200, 255}, kk \in {0, 1, 56, 255}}

ArithPairs == {<<0, 1>>, <<1, 0>>, <<2, 2>>, <<0, 15>>, <<14, 15>>, <<15, 0>>}

ArithValues ==
    {<<5, 3>>, <<3, 5>>, <<7, 7>>, <<0, 0>>, <<255, 1>>, <<0, 255>>}

\* Vx = a, Vy = b, then 8xy5 or 8xy7.
SubRoms ==
    {Bytes(<<OpK(6, xy[1], ab[1]), OpK(6, xy[2], ab[2]),
             Op(8, xy[1], xy[2], n), Halt(3)>>) :
        xy \in ArithPairs, ab \in ArithValues, n \in {5, 7}}

\* V0 = a, V1 = b, then the other 8xy_ instructions on V0 and V1.
AluRoms ==
    {Bytes(<<OpK(6, 0, ab[1]), OpK(6, 1, ab[2]), Op(8, 0, 1, n), Halt(3)>>) :
        ab \in {<<5, 3>>, <<200, 100>>, <<129, 255>>, <<0, 0>>},
        n \in {0, 1, 2, 3, 4, 6, 14}}

\* A conditional skip over "VA = 1": register against byte, register
\* against register.
SkipRoms ==
    {Bytes(<<OpK(6, x, v), OpK(n0, x, kk), OpK(6, 10, 1), Halt(3)>>) :
        n0 \in {3, 4}, x \in {0, 15}, v \in {0, 7, 255}, kk \in {0, 7}}
    \cup
    {Bytes(<<OpK(6, xy[1], ab[1]), OpK(6, xy[2], ab[2]),
             Op(n0, xy[1], xy[2], 0), OpK(6, 10, 1), Halt(4)>>) :
        n0 \in {5, 9}, xy \in {<<0, 1>>, <<2, 2>>, <<15, 3>>},
        ab \in {<<0, 0>>, <<7, 7>>, <<7, 8>>, <<255, 0>>}}

\* Words that match no arm of the dispatch.
UnknownWords ==
    {0, 1, 225, 239, 291, 4095,
     Op(5, 0, 0, 1), Op(5, 1, 2, 15), Op(5, 15, 15, 8),
     Op(8, 0, 0, 8), Op(8, 1, 2, 9), Op(8, 1, 2, 10), Op(8, 1, 2, 11),
     Op(8, 1, 2, 12), Op(8, 1, 2, 13), Op(8, 15, 15, 15),
     Op(9, 0, 0, 1), Op(9, 10, 11, 15),
     OpK(14, 0, 0), OpK(14, 1, 157), OpK(14, 1, 159), OpK(14, 1, 160),
     OpK(14, 1, 162), OpK(14, 15, 255),
     OpK(15, 0, 0), OpK(15, 1, 8), OpK(15, 0, 11), OpK(15, 1, 20),
     OpK(15, 0, 31), OpK(15, 0, 42), OpK(15, 0, 52), OpK(15, 0, 86),
     OpK(15, 0, 100), OpK(15, 0, 102), OpK(15, 15, 255)}

\* Both timers set to 3, then an unknown word, then "VA = 1".
UnknownRoms ==
    {Bytes(<<OpK(6, 0, 3), OpK(15, 0, 21), OpK(15, 0, 24), w, OpK(6, 10, 1),
             Halt(5)>>) :
        w \in UnknownWords}

\* Vx = random byte masked by kk.
RandRoms ==
    {Bytes(<<OpK(12, x, kk), Halt(1)>>) :
        x \in {0, 15}, kk \in {0, 15, 165, 255}}

Roms ==
    CallRetRoms \cup RecursionRoms \cup KeyWaitRoms \cup TimerRoms
    \cup KeyTestRoms \cup DrawRoms \cup EdgeRoms \cup {FullRom, OversizedRom}
    \cup RegBlockRoms \cup AddImmRoms \cup SubRoms \cup AluRoms \cup SkipRoms
    \cup UnknownRoms \cup RandRoms

\* ------------------------------------------------------------------------
\* Keypad snapshots (InputDriver::poll).
\* ------------------------------------------------------------------------
KeypadOf(S) == [k \in 0 .. (NUM_KEYS - 1) |-> k \in S]

PressedSets ==
    {{}} \cup {{k} : k \in 0 .. (NUM_KEYS - 1)}
    \cup {{3, 9}, {0, 15}, 0 .. (NUM_KEYS - 1)}

\* The opcode the next tick will fetch, if it fetches one.
NextOpcode(p) == IF CanFetch(p) THEN get_opcode(p) ELSE 0

\* The stored keypad is read only by the key-wait scan and by Ex9E / ExA1,
\* in the tick that stored it: those ticks get every snapshot of PressedSets,
\* the others two of them.
ReadsKeypad(p) ==
    \/ p.keypresswait
    \/ Nibble(NextOpcode(p), 0) = 14

KeypadsFor(p) ==
    IF ReadsKeypad(p) THEN {KeypadOf(S) : S \in PressedSets}
    ELSE {KeypadOf({}), KeypadOf({7})}

\* The random byte is read only by Cxkk.
RandomsFor(p) ==
    IF ~p.keypresswait /\ Nibble(NextOpcode(p), 0) = 12 THEN Byte ELSE {0}

\* Whether the build traps arithmetic overflow only matters to 00EE at sp = 0.
BuildsFor(p) ==
    IF ~p.keypresswait /\ NextOpcode(p) = 238 /\ p.sp = 0
    THEN BOOLEAN ELSE {TRUE}

\* ------------------------------------------------------------------------
\* main: read the cartridge, construct the processor, load, then tick on
\* every poll of the input.
\* ------------------------------------------------------------------------
VARIABLES
    rom,        \* cartridge_driver.rom
    processor,  \* the Processor
    output,     \* << >> before the first tick, then <<the last ProcessorState>>
    at,         \* where main is: "load", "loop"
    prev        \* << >>, or <<the Processor as it was before the last tick>>

vars == <<rom, processor, output, at, prev>>

Init ==
    /\ rom \in Roms
    /\ processor = new
    /\ output = << >>
    /\ at = "load"
    /\ prev = << >>

Load ==
    /\ at = "load"
    /\ processor' = load_program(processor, rom)
    /\ at' = "loop"
    /\ UNCHANGED <<rom, output, prev>>

Tick ==
    /\ at = "loop"
    /\ processor.fault = "none"
    /\ \E keypad \in KeypadsFor(processor),
          rnd \in RandomsFor(processor),
          overflow_checks \in BuildsFor(processor) :
          LET q == tick(processor, keypad, rnd, overflow_checks)
          IN  /\ processor' = q
              /\ output' = IF q.fault = "none" THEN <<ProcessorState(q)>>
                           ELSE output
    /\ prev' = <<processor>>
    /\ UNCHANGED <<rom, at>>

Next == Load \/ Tick

Spec == Init /\ [][Next]_vars

\* ------------------------------------------------------------------------
\* Vocabulary of the properties.
\* ------------------------------------------------------------------------
\* Every step taken from a state with at = "loop" is a tick.
InLoop == at = "loop"

\* The ROM fits in the memory after 0x200.
RomFits == Len(rom) <= MEMORY_SIZE - PROGRAM_START

\* A tick from p fetches and dispatches an opcode (it does not wait for a key
\* and the fetch does not panic); the timers do not move the fetch.
Fetches(p) == p.fault = "none" /\ ~p.keypresswait /\ CanFetch(p)

\* A tick from p executes opcode op.
Executes(p, op) == Fetches(p) /\ get_opcode(p) = op

IsCall(op) == Nibble(op, 0) = 2

IsClear(op) == op = 224

IsDraw(op) == Nibble(op, 0) = 13

IsSetDelay(op) == Nibble(op, 0) = 15 /\ op % 256 = 21

IsSetSound(op) == Nibble(op, 0) = 15 /\ op % 256 = 24

IsGetDelay(op) == Nibble(op, 0) = 15 /\ op % 256 = 7

\* The processor before the last tick (only used where prev # << >>).
Before == prev[1]

\* ------------------------------------------------------------------------
\* C1: after initialize and the load of a ROM that fits, no tick ever
\* panics: no out-of-range access to memory, stack, keypad or framebuffer,
\* and no fault state.
\* ------------------------------------------------------------------------
C1_TickNeverFaults == (InLoop /\ RomFits) => processor.fault = "none"

\* ------------------------------------------------------------------------
\* C2: in every state reached by ticks from initialize + load, the program
\* counter is in [0, 4096).
\* ------------------------------------------------------------------------
C2_PcInMemory == processor.pc >= 0 /\ processor.pc < MEMORY_SIZE

\* ------------------------------------------------------------------------
\* C3: in every state reached by ticks from initialize + load, the stack
\* pointer is in 0 .. 48; a return at sp = 0 and a call at sp = 48 do not
\* take it out of that range.
\* ------------------------------------------------------------------------
C3_SpInRange == processor.sp >= 0 /\ processor.sp <= STACK_SIZE

\* ------------------------------------------------------------------------
\* C4: call/return round trip.  A call to A executed at pc = P with
\* sp = s < 48 stores P + 2 in stack[s] (and touches no other slot), sets
\* sp = s + 1 and pc = A.  A return executed with sp = s + 1 sets pc to
\* stack[s] and sp to s and leaves the stack as it was; so a return right
\* after the call gives pc = P + 2, sp = s and the slots below s unchanged.
\* ------------------------------------------------------------------------
C4_CallStep ==
    LET op == get_opcode(processor)
        s  == processor.sp
    IN  (Fetches(processor) /\ IsCall(op) /\ s < STACK_SIZE) =>
            /\ processor'.fault = "none"
            /\ processor'.stack[s] = processor.pc + 2
            /\ \A j \in 0 .. (STACK_SIZE - 1) :
                  j # s => processor'.stack[j] = processor.stack[j]
            /\ processor'.sp = s + 1
            /\ processor'.pc = op % 4096

C4_ReturnStep ==
    (Executes(processor, 238) /\ processor.sp >= 1 /\ processor.sp <= STACK_SIZE) =>
        /\ processor'.fault = "none"
        /\ processor'.pc = processor.stack[processor.sp - 1]
        /\ processor'.sp = processor.sp - 1
        /\ processor'.stack = processor.stack

C4_ReturnRightAfterCall ==
    (/\ prev # << >>
     /\ Fetches(Before) /\ IsCall(get_opcode(Before)) /\ Before.sp < STACK_SIZE
     /\ Executes(processor, 238)) =>
        /\ processor'.pc = Before.pc + 2
        /\ processor'.sp = Before.sp
        /\ \A j \in 0 .. (STACK_SIZE - 1) :
              j < Before.sp => processor'.stack[j] = Before.stack[j]

C4_CallReturnRoundTrip ==
    [][InLoop => (C4_CallStep /\ C4_ReturnStep /\ C4_ReturnRightAfterCall)]_vars

\* A return has just undone a call made from inside a subroutine.
C4_Witness ==
    /\ prev # << >>
    /\ Executes(Before, 238)
    /\ Before.sp = 2
    /\ processor.fault = "none"
    /\ processor.sp = 1
    /\ processor.pc = Before.stack[1]

\* ------------------------------------------------------------------------
\* C5: the load of a ROM longer than 4096 - 0x200 bytes is rejected with an
\* error and leaves the whole memory as it was before the call.
\* ------------------------------------------------------------------------
C5_OversizedLoadRejected ==
    (InLoop /\ ~RomFits) =>
        /\ processor.fault # "none"
        /\ processor.memory = new.memory

\* ------------------------------------------------------------------------
\* C6: key-wait resolution.  A tick taken while key-wait is active, with a
\* snapshot in which some key is down, writes the lowest key that is down
\* into the target register and clears key-wait; apart from the stored
\* snapshot and the changed flag (reset to false) nothing else changes:
\* timers, pc, I, memory, stack, sp, framebuffer and the other registers
\* keep their values.
\* ------------------------------------------------------------------------
C6_KeyWaitResolution ==
    [][(/\ InLoop
        /\ processor.keypresswait
        /\ Pressed(processor'.keypad) # {}) =>
           \E k \in Pressed(processor'.keypad) :
               /\ \A j \in 0 .. (NUM_KEYS - 1) : j < k => ~processor'.keypad[j]
               /\ processor' =
                     [processor EXCEPT
                         !.keypad = processor'.keypad,
                         !.vram_changed = FALSE,
                         !.keypresswait = FALSE,
                         !.registers[processor.key] = k]]_vars

\* The wait for a key into V3 has just been resolved by keys 3 and 9 held
\* together, with both timers running and left alone.
C6_Witness ==
    /\ prev # << >>
    /\ Before.keypresswait /\ Before.key = 3
    /\ Before.delay_timer > 0 /\ Before.sound_timer > 0
    /\ Pressed(processor.keypad) = {3, 9}
    /\ ~processor.keypresswait
    /\ processor.registers[3] = 3
    /\ processor.delay_timer = Before.delay_timer
    /\ processor.sound_timer = Before.sound_timer

\* ------------------------------------------------------------------------
\* C7: on every tick taken while key-wait is inactive each timer that is
\* non-zero is decremented by exactly 1 before the instruction executes and
\* a timer at 0 stays 0; each timer moves on its own; within the tick only
\* set-delay-timer (the delay timer) and set-sound-timer (the sound timer)
\* give a timer another value, and load-delay-timer reads the decremented
\* value.
\* ------------------------------------------------------------------------
Decremented(t) == IF t > 0 THEN t - 1 ELSE 0

C7_TimersDecrement ==
    [][(InLoop /\ ~processor.keypresswait) =>
          LET op == NextOpcode(processor)
              x  == Nibble(op, 1)
              d  == Decremented(processor.delay_timer)
              s  == Decremented(processor.sound_timer)
          IN  /\ processor'.delay_timer =
                    IF Fetches(processor) /\ IsSetDelay(op)
                    THEN processor.registers[x] ELSE d
              /\ processor'.sound_timer =
                    IF Fetches(processor) /\ IsSetSound(op)
                    THEN processor.registers[x] ELSE s
              /\ (Fetches(processor) /\ IsGetDelay(op)) =>
                    processor'.registers[x] = d]_vars

\* A tick has just decremented the sound timer while the delay timer stayed
\* at 0.
C7_Witness ==
    /\ prev # << >>
    /\ ~Before.keypresswait
    /\ Before.delay_timer = 0 /\ Before.sound_timer = 2
    /\ ~IsSetDelay(NextOpcode(Before)) /\ ~IsSetSound(NextOpcode(Before))
    /\ processor.delay_timer = 0 /\ processor.sound_timer = 1

\* ------------------------------------------------------------------------
\* C8: the snapshot a tick returns agrees with the processor after the
\* tick: its framebuffer cell for cell, its changed flag, and beep, which
\* is true exactly when the sound timer is > 0 after the tick's decrement
\* and instruction.  So a tick executing set-sound-timer with Vx > 0 returns
\* beep = true and the tick in which the sound timer reaches 0 returns
\* beep = false.
\* ------------------------------------------------------------------------
C8_SnapshotAgrees ==
    [][(InLoop /\ processor'.fault = "none") =>
          LET op == NextOpcode(processor)
              x  == Nibble(op, 1)
          IN  /\ Len(output') = 1
              /\ \A row \in 0 .. (VRAM_HEIGHT - 1), col \in 0 .. (VRAM_WIDTH - 1) :
                    output'[1].vram[row][col] = processor'.vram[row][col]
              /\ output'[1].vram_changed = processor'.vram_changed
              /\ output'[1].beep = (processor'.sound_timer > 0)
              /\ (Fetches(processor) /\ IsSetSound(op)) =>
                    output'[1].beep = (processor.registers[x] > 0)
              /\ (Fetches(processor) /\ ~IsSetSound(op)) =>
                    output'[1].beep = (processor.sound_timer > 1)
              /\ processor.keypresswait =>
                    output'[1].beep = (processor.sound_timer > 0)]_vars

\* The tick in which the sound timer went from 1 to 0 returned beep = false
\* while the delay timer was still running.
C8_Witness ==
    /\ prev # << >>
    /\ Fetches(Before) /\ Before.sound_timer = 1
    /\ processor.fault = "none" /\ processor.sound_timer = 0
    /\ processor.delay_timer > 0
    /\ output # << >> /\ ~output[1].beep

SpriteBit(p, row, col) == (p.memory[p.i + row] \div (2 ^ (7 - col))) % 2

\* The cells under the set bits of the n-row sprite at (Vx, Vy) are all off.
SpriteCellsOff(p, x, y, n) ==
    \A row \in 0 .. (n - 1), col \in 0 .. 7 :
        SpriteBit(p, row, col) = 1 =>
            p.vram[(p.registers[y] + row) % VRAM_HEIGHT]
                  [(p.registers[x] + col) % VRAM_WIDTH] = 0

\* The draw `op` from state p is one the claim is about.
DrawInScope(p, op) ==
    LET x == Nibble(op, 1)
        y == Nibble(op, 2)
        n == Nibble(op, 3)
    IN  /\ IsDraw(op)
        /\ x # VF /\ y # VF
        /\ n >= 1
        /\ p.i + n <= MEMORY_SIZE
        /\ \E row \in 0 .. (n - 1) : p.memory[p.i + row] # 0

C10_DrawTwiceRestores ==
    [][(/\ InLoop
        /\ prev # << >>
        /\ Fetches(Before)
        /\ DrawInScope(Before, get_opcode(Before))
        /\ Executes(processor, get_opcode(Before))) =>
           LET op == get_opcode(Before)
           IN  /\ processor'.fault = "none"
               /\ processor'.vram = Before.vram
               /\ SpriteCellsOff(Before, Nibble(op, 1), Nibble(op, 2), Nibble(op, 3)) =>
                     /\ processor.registers[VF] = 0
                     /\ processor'.registers[VF] = 1]_vars

\* The second of two draws of a 15-row sprite over a non-blank frame has
\* just put the frame back and reported the collision.
C10_Witness ==
    /\ prev # << >>
    /\ Fetches(Before)
    /\ DrawInScope(Before, get_opcode(Before))
    /\ Nibble(get_opcode(Before), 3) = 15
    /\ Before.vram_changed
    /\ processor.fault = "none"
    /\ processor.vram # Before.vram
    /\ processor.vram # new.vram
    /\ processor.registers[VF] = 1
    /\ Before.memory[Before.pc - 2] * 256 + Before.memory[Before.pc - 1]
          = get_opcode(Before)


\* ------------------------------------------------------------------------
\* C11: register dump / load round trip.  For every x in 0 .. F and every I
\* with I + x < 4096, the dump Fx55 writes memory[I + k] = Vk for k = 0 .. x
\* and leaves I, every register and every other memory byte unchanged; a
\* load Fx65 sets Vk = memory[I + k] for k = 0 .. x and leaves the registers
\* above x, I and the memory unchanged; and a load with the same x and I
\* applied after the dump, from any register contents, gives V0 .. Vx the
\* dumped values again.
\* ------------------------------------------------------------------------
IsDump(op) == Nibble(op, 0) = 15 /\ op % 256 = 85

IsLoadRegs(op) == Nibble(op, 0) = 15 /\ op % 256 = 101

\* Register contents a load may start from.
RegisterFiles ==
    {[r \in RegIdx |-> 0], [r \in RegIdx |-> 255],
     [r \in RegIdx |-> (17 * r + 3) % 256]}

C11_DumpLoadRoundTrip ==
    [][InLoop =>
          LET op    == NextOpcode(processor)
              x     == Nibble(op, 1)
              base  == processor.i
              scope == Fetches(processor) /\ base + x < MEMORY_SIZE
          IN  /\ (scope /\ IsDump(op)) =>
                    /\ processor'.fault = "none"
                    /\ \A a \in 0 .. (MEMORY_SIZE - 1) :
                          processor'.memory[a] =
                              IF a >= base /\ a <= base + x
                              THEN processor.registers[a - base]
                              ELSE processor.memory[a]
                    /\ processor'.i = base
                    /\ processor'.registers = processor.registers
                    /\ \A R \in RegisterFiles :
                          LET l == opfx65([processor' EXCEPT !.registers = R], x)
                          IN  /\ l.fault = "none"
                              /\ \A k \in RegIdx :
                                    l.registers[k] =
                                        IF k <= x THEN processor.registers[k]
                                        ELSE R[k]
                              /\ l.i = base
                              /\ l.memory = processor'.memory
              /\ (scope /\ IsLoadRegs(op)) =>
                    /\ processor'.fault = "none"
                    /\ \A k \in RegIdx :
                          processor'.registers[k] =
                              IF k <= x THEN processor.memory[base + k]
                              ELSE processor.registers[k]
                    /\ processor'.i = base
                    /\ processor'.memory = processor.memory]_vars

\* V0 .. V9 were dumped at the top of memory, every register was cleared,
\* and the load has just brought V0 .. V9 back and left VA .. VF cleared.
C11_Witness ==
    /\ prev # << >>
    /\ Executes(Before, OpK(15, 9, 101))
    /\ Before.i = MEMORY_SIZE - NUM_REGISTERS
    /\ \A k \in RegIdx : Before.registers[k] = 0
    /\ processor.fault = "none"
    /\ \A k \in 0 .. 9 : processor.registers[k] = FONT_SET[k + 1]
    /\ \A k \in 10 .. 15 : processor.registers[k] = 0
    /\ processor.registers[0] # 0


\* ------------------------------------------------------------------------
\* C12: add-immediate sets the flag.  For every x in 0 .. E, every Vx and
\* every kk, 7xkk leaves Vx = (old Vx + kk) mod 256 and VF = 1 if
\* old Vx + kk > 255, else 0; every register other than Vx and VF, and
\* everything else but PC, is unchanged; PC advances by 2.
\* ------------------------------------------------------------------------
IsAddImm(op) == Nibble(op, 0) = 7

C12_AddImmediateFlag ==
    [][InLoop =>
          LET op == NextOpcode(processor)
              x  == Nibble(op, 1)
              kk == op % 256
              vx == processor.registers[x]
          IN  (Fetches(processor) /\ IsAddImm(op) /\ x <= 14) =>
                  /\ processor'.fault = "none"
                  /\ processor'.registers[x] = (vx + kk) % 256
                  /\ processor'.registers[VF] = (IF vx + kk > 255 THEN 1 ELSE 0)
                  /\ \A r \in RegIdx \ {x, VF} :
                        processor'.registers[r] = processor.registers[r]
                  /\ processor'.pc = processor.pc + 2
                  /\ processor'.i = processor.i
                  /\ processor'.memory = processor.memory
                  /\ processor'.stack = processor.stack
                  /\ processor'.sp = processor.sp
                  /\ processor'.vram = processor.vram]_vars

\* VE = 200 plus 56 has just wrapped to 0 and set VF, which held 9.
C12_Witness ==
    /\ prev # << >>
    /\ Executes(Before, OpK(7, 14, 56))
    /\ Before.registers[14] = 200 /\ Before.registers[VF] = 9
    /\ processor.registers[14] = 0 /\ processor.registers[VF] = 1


\* ------------------------------------------------------------------------
\* C13: subtract flag semantics.  For x in 0 .. E and y in 0 .. F (y = 0xF
\* and y = x included), 8xy5 leaves Vx = (old Vx - old Vy) mod 256 and
\* VF = 1 if old Vx > old Vy, else 0; 8xy7 leaves
\* Vx = (old Vy - old Vx) mod 256 and VF = 1 if old Vy > old Vx, else 0;
\* the old values are those held before the instruction started.
\* ------------------------------------------------------------------------
IsSub(op) == Nibble(op, 0) = 8 /\ Nibble(op, 3) = 5

IsSubReverse(op) == Nibble(op, 0) = 8 /\ Nibble(op, 3) = 7

C13_SubtractFlag ==
    [][InLoop =>
          LET op == NextOpcode(processor)
              x  == Nibble(op, 1)
              y  == Nibble(op, 2)
              vx == processor.registers[x]
              vy == processor.registers[y]
          IN  /\ (Fetches(processor) /\ IsSub(op) /\ x <= 14) =>
                    /\ processor'.registers[x] = (vx - vy) % 256
                    /\ processor'.registers[VF] = (IF vx > vy THEN 1 ELSE 0)
              /\ (Fetches(processor) /\ IsSubReverse(op) /\ x <= 14) =>
                    /\ processor'.registers[x] = (vy - vx) % 256
                    /\ processor'.registers[VF] = (IF vy > vx THEN 1 ELSE 0)]_vars


\* ------------------------------------------------------------------------
\* C14: conditional skip polarity.  3xkk (Vx = kk) and 5xy0 (Vx = Vy)
\* advance PC by 4 exactly when the operands are equal and by 2 otherwise;
\* 4xkk (Vx # kk) and 9xy0 (Vx # Vy) advance PC by 4 exactly when the
\* operands differ and by 2 otherwise; none of the four changes a register,
\* I, memory, the stack or the framebuffer.
\* ------------------------------------------------------------------------
IsSkipEqByte(op) == Nibble(op, 0) = 3

IsSkipNeByte(op) == Nibble(op, 0) = 4

IsSkipEqReg(op) == Nibble(op, 0) = 5 /\ Nibble(op, 3) = 0

IsSkipNeReg(op) == Nibble(op, 0) = 9 /\ Nibble(op, 3) = 0

C14_SkipPolarity ==
    [][InLoop =>
          LET op    == NextOpcode(processor)
              vx    == processor.registers[Nibble(op, 1)]
              vy    == processor.registers[Nibble(op, 2)]
              kk    == op % 256
              equal == IF IsSkipEqByte(op) \/ IsSkipNeByte(op)
                       THEN vx = kk ELSE vx = vy
              skips == IF IsSkipEqByte(op) \/ IsSkipEqReg(op)
                       THEN equal ELSE ~equal
          IN  (/\ Fetches(processor)
               /\ \/ IsSkipEqByte(op) \/ IsSkipNeByte(op)
                  \/ IsSkipEqReg(op) \/ IsSkipNeReg(op)) =>
                  /\ processor'.fault = "none"
                  /\ processor'.pc = processor.pc + (IF skips THEN 4 ELSE 2)
                  /\ processor'.registers = processor.registers
                  /\ processor'.i = processor.i
                  /\ processor'.memory = processor.memory
                  /\ processor'.stack = processor.stack
                  /\ processor'.vram = processor.vram]_vars


\* ------------------------------------------------------------------------
\* C15: default PC advance.  On every tick with key-wait inactive that runs
\* to its end, if the fetched instruction is not return, jump, call,
\* jump-with-offset or a conditional skip, PC after the tick is PC before
\* the tick plus 2; shift-left (8xyE) included, so a program never stays at
\* one PC executing a non-jump instruction again.
\* ------------------------------------------------------------------------
IsReturn(op) == op = 238

IsJump(op) == Nibble(op, 0) = 1

IsJumpOffset(op) == Nibble(op, 0) = 11

IsSkipKey(op) == Nibble(op, 0) = 14 /\ op % 256 \in {158, 161}

ChangesFlow(op) ==
    \/ IsReturn(op) \/ IsJump(op) \/ IsCall(op) \/ IsJumpOffset(op)
    \/ IsSkipEqByte(op) \/ IsSkipNeByte(op) \/ IsSkipEqReg(op)
    \/ IsSkipNeReg(op) \/ IsSkipKey(op)

C15_DefaultPcAdvance ==
    [][InLoop =>
          LET op == NextOpcode(processor)
          IN  (/\ Fetches(processor)
               /\ ~ChangesFlow(op)
               /\ processor'.fault = "none") =>
                  processor'.pc = processor.pc + 2]_vars


\* ------------------------------------------------------------------------
\* C16: an unknown opcode is a no-op.  Dispatch is total over all 65536
\* instruction words: for every word that matches no known pattern (0nnn
\* other than 00E0 / 00EE, 5xy1 .. 5xyF, 8xy8 .. 8xyD and 8xyF,
\* 9xy1 .. 9xyF, Exkk other than Ex9E / ExA1, Fxkk outside 07, 0A, 15, 18,
\* 1E, 29, 33, 55, 65) the tick advances PC by 2 and changes no register,
\* I, memory, stack, sp, framebuffer or key-wait state; only the per-tick
\* timer decrement (and the stored keypad snapshot) applies.
\* ------------------------------------------------------------------------
Words == 0 .. 65535

IsUnknown(op) ==
    LET n0 == Nibble(op, 0)
        n  == Nibble(op, 3)
        kk == op % 256
    IN  \/ n0 = 0 /\ op \notin {224, 238}
        \/ n0 = 5 /\ n >= 1
        \/ n0 = 8 /\ (n \in 8 .. 13 \/ n = 15)
        \/ n0 = 9 /\ n >= 1
        \/ n0 = 14 /\ kk \notin {158, 161}
        \/ n0 = 15 /\ kk \notin {7, 10, 21, 24, 30, 41, 51, 85, 101}

\* What a tick that only counts the timers down and steps over one word
\* leaves of p, the keypad snapshot being the one it stored.
SteppedOver(p, keypad) ==
    [p EXCEPT !.pc = p.pc + 2,
              !.delay_timer = Decremented(p.delay_timer),
              !.sound_timer = Decremented(p.sound_timer),
              !.vram_changed = FALSE,
              !.keypad = keypad]

C16_UnknownOpcodeNoOp ==
    [][InLoop =>
          LET op == NextOpcode(processor)
          IN  /\ (Fetches(processor) /\ IsUnknown(op)) =>
                    processor' = SteppedOver(processor, processor'.keypad)
              /\ (Executes(processor, 0) /\ processor.pc = Addr(3)) =>
                    \A w \in Words :
                        IsUnknown(w) =>
                            LET p == [processor EXCEPT
                                         !.memory[processor.pc] = w \div 256,
                                         !.memory[processor.pc + 1] = w % 256]
                            IN  \A rnd \in {0, 255} :
                                    tick(p, processor'.keypad, rnd, TRUE)
                                    = SteppedOver(p, processor'.keypad)]_vars

\* The word 8FFF has just been stepped over with both timers running: PC
\* moved on by 2, the timers by 1, and nothing else differs.
C16_Witness ==
    /\ prev # << >>
    /\ Executes(Before, Op(8, 15, 15, 15))
    /\ Before.delay_timer = 2 /\ Before.sound_timer = 3
    /\ processor.pc = Before.pc + 2
    /\ processor.delay_timer = 1 /\ processor.sound_timer = 2
    /\ processor.registers = Before.registers
    /\ processor.fault = "none"


\* ------------------------------------------------------------------------
\* C17: key-wait across ticks.  Key-wait is set only by a tick executing
\* Fx0A.  While it is set, every tick whose snapshot has no key down leaves
\* it set and leaves PC, I, registers, timers, memory, stack, sp and
\* framebuffer unchanged; it is cleared on exactly the first tick whose
\* snapshot has a key down; the tick after that one executes the
\* instruction at PC again; and if ticks with a key down keep coming, a
\* wait always ends.
\* ------------------------------------------------------------------------
IsAwaitKey(op) == Nibble(op, 0) = 15 /\ op % 256 = 10

\* A tick whose keypad snapshot has a key down.
KeyDownTick == Tick /\ Pressed(processor'.keypad) # {}

C17_KeyWaitAcrossTicks ==
    /\ [][InLoop =>
            /\ (~processor.keypresswait /\ processor'.keypresswait) =>
                  (Fetches(processor) /\ IsAwaitKey(NextOpcode(processor)))
            /\ (processor.keypresswait /\ Pressed(processor'.keypad) = {}) =>
                  processor' = [processor EXCEPT
                                   !.keypad = processor'.keypad,
                                   !.vram_changed = FALSE]
            /\ processor.keypresswait =>
                  (processor'.keypresswait <=> Pressed(processor'.keypad) = {})
            /\ (/\ prev # << >>
                /\ Before.keypresswait
                /\ ~processor.keypresswait) =>
                  \E rnd \in RandomsFor(processor),
                     overflow_checks \in BuildsFor(processor) :
                      processor' =
                          execute_once(
                              decrement_timers(
                                  [processor EXCEPT
                                      !.keypad = processor'.keypad,
                                      !.vram_changed = FALSE]),
                              get_opcode(processor), rnd, overflow_checks)]_vars
    /\ ([]<><<KeyDownTick>>_vars) =>
           [](processor.keypresswait => <>(~processor.keypresswait))

\* Two ticks in a row have found key-wait set and no key down, with both
\* timers running: nothing has moved.
C17_Witness ==
    /\ prev # << >>
    /\ Before.keypresswait /\ processor.keypresswait
    /\ Pressed(Before.keypad) = {} /\ Pressed(processor.keypad) = {}
    /\ processor.delay_timer > 0 /\ processor.sound_timer > 0
    /\ processor.delay_timer = Before.delay_timer
    /\ processor.sound_timer = Before.sound_timer
    /\ processor.pc = Before.pc


\* ------------------------------------------------------------------------
\* C18: sprite draw placement.  For all x, y in 0 .. F (0xF included),
\* every n and every I with I + n <= 4096, the draw XORs bit col (most
\* significant first) of memory[I + row] into the cell at row
\* (Vy + row) mod 32, column (Vx + col) mod 64, for row < n and col < 8,
\* Vx and Vy being the values held before the instruction started; every
\* other cell is unchanged; VF ends as 1 exactly when some sprite bit 1 was
\* XORed onto a cell that was 1, else 0.
\* ------------------------------------------------------------------------
C18_DrawPlacement ==
    [][InLoop =>
          LET op == NextOpcode(processor)
              n  == Nibble(op, 3)
              vx == processor.registers[Nibble(op, 1)]
              vy == processor.registers[Nibble(op, 2)]
          IN  (/\ Fetches(processor)
               /\ IsDraw(op)
               /\ processor.i + n <= MEMORY_SIZE) =>
                  /\ processor'.fault = "none"
                  /\ \A r \in 0 .. (VRAM_HEIGHT - 1), c \in 0 .. (VRAM_WIDTH - 1) :
                        LET row == (r - vy) % VRAM_HEIGHT
                            col == (c - vx) % VRAM_WIDTH
                        IN  processor'.vram[r][c] =
                                IF row < n /\ col < 8
                                THEN (processor.vram[r][c]
                                      + SpriteBit(processor, row, col)) % 2
                                ELSE processor.vram[r][c]
                  /\ processor'.registers[VF] =
                        (IF \E row \in 0 .. (n - 1), col \in 0 .. 7 :
                               /\ SpriteBit(processor, row, col) = 1
                               /\ processor.vram[(vy + row) % VRAM_HEIGHT]
                                                [(vx + col) % VRAM_WIDTH] = 1
                         THEN 1 ELSE 0)]_vars


\* ------------------------------------------------------------------------
\* C19: await-keypress timing.  The tick that executes Fx0A does not look
\* at its own keypad snapshot: whatever keys are down, it sets key-wait,
\* leaves Vx and every other register as they were and advances PC by 2.
\* PC does not move while the wait lasts, so when the wait is resolved PC
\* is the address of the instruction after the Fx0A: the next instruction
\* fetched is that one, and the Fx0A is not fetched again for this wait.
\* ------------------------------------------------------------------------
\* The word before PC: in a waiting processor, the Fx0A it is waiting in.
AwaitedWord(p) == p.memory[p.pc - 2] * 256 + p.memory[p.pc - 1]

C19_AwaitKeyTiming ==
    [][InLoop =>
          LET op == NextOpcode(processor)
              x  == Nibble(op, 1)
          IN  /\ (Fetches(processor) /\ IsAwaitKey(op)) =>
                    processor' =
                        [processor EXCEPT
                            !.keypad = processor'.keypad,
                            !.vram_changed = FALSE,
                            !.delay_timer = Decremented(processor.delay_timer),
                            !.sound_timer = Decremented(processor.sound_timer),
                            !.keypresswait = TRUE,
                            !.key = x,
                            !.pc = processor.pc + 2]
              /\ processor.keypresswait =>
                    /\ IsAwaitKey(AwaitedWord(processor))
                    /\ Nibble(AwaitedWord(processor), 1) = processor.key
                    /\ processor'.pc = processor.pc
                    /\ processor'.memory = processor.memory
              /\ (/\ prev # << >>
                  /\ Before.keypresswait
                  /\ ~processor.keypresswait) =>
                    /\ processor.pc = Before.pc
                    /\ IsAwaitKey(AwaitedWord(processor))
                    /\ Fetches(processor)]_vars

\* Fx0A into V3 has just executed on a tick with key 7 held: V3 is as it
\* was, key-wait is set and PC has moved on.
C19_Witness ==
    /\ prev # << >>
    /\ Executes(Before, OpK(15, 3, 10))
    /\ Pressed(processor.keypad) = {7}
    /\ processor.keypresswait /\ processor.key = 3
    /\ processor.registers[3] = Before.registers[3]
    /\ processor.registers[3] # 7
    /\ processor.pc = Before.pc + 2


\* ------------------------------------------------------------------------
\* C20: determinism given the inputs.  A second VM in the state of the
\* first, given the same keypad snapshot, is after the tick in the same
\* state as the first and returns the same snapshot, whatever bytes the
\* random generator would give it, provided the tick does not execute Cxkk
\* (so two VMs started alike and fed the same keypad sequence agree after
\* every tick).  On a tick that executes Cxkk the two states differ at most
\* in Vx of that instruction, which is the random byte masked by kk.
\* ------------------------------------------------------------------------
IsRandom(op) == Nibble(op, 0) = 12

\* Random bytes the second VM may draw.
OtherRandoms == {85, 255}

====
